---- MODULE Spec2Model ----
(***************************************************************************)
(* LangLearn API (main.py, schemas.py): lessons, quizzes, flashcards and   *)
(* per-user progress snapshots kept in a document store.                   *)
(*                                                                         *)
(* A document is a function from field names to values.  A value of an     *)
(* Optional[...] type is written None (<<>>) or Some(v) (<<v>>) wherever   *)
(* None can occur.  A store-generated identifier (ObjectId) is a natural   *)
(* number, and str(ObjectId) is its decimal numeral.                       *)
(***************************************************************************)
EXTENDS Integers, Sequences, FiniteSets, TLC

\* ------------------------------------------------------------------ bounds
\* documents stored by create/update requests in one behaviour
MaxCreates == 2
\* request-handling threads serving POST /seed at the same time (SpecConc)
NumWorkers == 2

\* ------------------------------------------------------- program constants
\* list_flashcards(limit: int = 50)
DefaultLimit == 50

HTTP_OK == 200
HTTP_UNPROCESSABLE == 422
HTTP_SERVER_ERROR == 500

\* ------------------------------------------------------------------ values
None == <<>>
Some(v) == <<v>>
Empty == <<>>

Collections == {"lesson", "quiz", "flashcard", "progress"}
Users == {"u1", "u2"}

\* ----------------------------------------------------------------- schemas
\* schemas.py: Field(...) marks a required field
\* Lesson with `title` given a default, so no longer required.
LessonRequiredButTitle == {"language", "level", "content"}

LessonRequired == {"language", "title", "level", "content"}
QuizRequired == {"lesson_id"}
FlashcardRequired == {"language", "term", "definition"}
ProgressUpdateFields ==
    {"user_id", "lesson_id", "quiz_score", "completed", "streak_days", "studied_flashcards"}

\* The validated model of a Lesson body: objectives defaults to the empty list.
Lesson(p) ==
    [k \in LessonRequired |-> p[k]]
        @@ ("objectives" :> (IF "objectives" \in DOMAIN p THEN p["objectives"] ELSE <<>>))

\* The validated model of a Quiz body: questions defaults to the empty list.
Quiz(p) ==
    [k \in QuizRequired |-> p[k]]
        @@ ("questions" :> (IF "questions" \in DOMAIN p THEN p["questions"] ELSE <<>>))

\* The validated model of a Flashcard body: example is Optional, default None.
Flashcard(p) ==
    [k \in FlashcardRequired |-> p[k]]
        @@ ("example" :> (IF "example" \in DOMAIN p THEN Some(p["example"]) ELSE None))

\* ProgressUpdate(...).model_dump(): every field, None where the body has none.
ProgressUpdate(p) ==
    [k \in ProgressUpdateFields |-> IF k \in DOMAIN p THEN Some(p[k]) ELSE None]

\* Request validation of a body against a schema: required fields are present.
Valid(required, p) == required \subseteq DOMAIN p

\* ---------------------------------------------------------- request inputs
Without(p, f) == [k \in DOMAIN p \ {f} |-> p[k]]

LessonSpanish ==
    [language |-> "Spanish", title |-> "Saludos", level |-> "A1", content |-> "Hola"]
LessonFrench ==
    [language |-> "French", title |-> "Nombres", level |-> "B1", content |-> "Un",
     objectives |-> <<"Count">>]
LessonPayloads ==
    {LessonSpanish, LessonFrench} \cup {Without(LessonSpanish, f) : f \in DOMAIN LessonSpanish}

QuizOne == [lesson_id |-> "1"]
QuizPayloads == {QuizOne, [questions |-> <<>>]}

FlashcardSpanish == [language |-> "Spanish", term |-> "Gracias", definition |-> "Thanks"]
FlashcardPayloads == {FlashcardSpanish, Without(FlashcardSpanish, "term")}

\* POST /progress bodies; the first is {user_id: "u1", streak_days: 3}
\* and the second gives every field, some with values Python counts as false
ProgressStreak == [user_id |-> "u1", streak_days |-> 3]
ProgressFull ==
    [user_id |-> "u1", lesson_id |-> "1", quiz_score |-> 80, completed |-> FALSE,
     streak_days |-> 0, studied_flashcards |-> 2]
ProgressPayloads == {ProgressStreak, ProgressFull, [streak_days |-> 1]}

\* Optional[str] query parameters: not supplied, supplied empty, supplied
LanguageParams == {None, Some(""), Some("Spanish")}
LevelParams == {None, Some("A1")}
LessonIdParams == {None, Some("1")}
LimitParams == {1, DefaultLimit}

\* Flashcards a store may hold before the process starts (a persistent store
\* outlives the process): n copies of one card under identifiers 1..n.
FlashcardGerman ==
    [language |-> "German", term |-> "Danke", definition |-> "Thanks", example |-> None]
PriorFlashcards(n) == [i \in 1..n |-> ("_id" :> i) @@ FlashcardGerman]
PriorSizes == {0, DefaultLimit - 1}

\* ------------------------------------------------- document store adapter
\* create_document(collection, data): appends data under a fresh identifier.
create_document(store, id, c, data) ==
    [store EXCEPT ![c] = Append(@, ("_id" :> id) @@ data)]

Matches(doc, q) == \A k \in DOMAIN q : k \in DOMAIN doc /\ doc[k] = q[k]

Take(s, n) == SubSeq(s, 1, IF n < Len(s) THEN n ELSE Len(s))

\* get_documents(collection, filter, limit): the matching documents in
\* insertion order, the first `limit` of them when a limit is given.
get_documents(store, c, q, limit) ==
    LET found == SelectSeq(store[c], LAMBDA d : Matches(d, q))
    IN  IF limit = None THEN found ELSE Take(found, limit[1])

\* db[collection].count_documents({})
count_documents(store, c) == Len(store[c])

\* -------------------------------------------------------------- route layer
\* str(ObjectId)
str(id) == ToString(id)

\* serialize without the rename: the document keeps "_id" and gains no "id".
serializeKeepsObjectId(doc) == doc

serialize(doc) ==
    IF DOMAIN doc = {} THEN doc
    ELSE IF "_id" \in DOMAIN doc
         THEN [k \in DOMAIN doc \ {"_id"} |-> doc[k]] @@ ("id" :> str(doc["_id"]))
         ELSE doc

\* [serialize(d) for d in docs]
Serialized(docs) == [i \in 1..Len(docs) |-> serialize(docs[i])]

\* Python truthiness of an Optional[str] parameter
Truthy(param) == param # None /\ param[1] # ""

Filter(key, param) == IF Truthy(param) THEN key :> param[1] ELSE Empty

ServerError == [status |-> HTTP_SERVER_ERROR, body |-> [detail |-> "error"]]
ValidationError == [status |-> HTTP_UNPROCESSABLE, body |-> [detail |-> "missing"]]
Ok(body) == [status |-> HTTP_OK, body |-> body]

\* ---------------------------------------------------------------- seeding
\* seed_demo's fixed demo records (texts in ASCII)
SeedLessons ==
    << [language |-> "Spanish", title |-> "Basics: Greetings", level |-> "A1",
        content |-> "Hola, como estas? Learn common greetings and introductions.",
        objectives |-> <<"Greet someone", "Introduce yourself", "Say goodbye">>],
       [language |-> "French", title |-> "Basics: Numbers", level |-> "A1",
        content |-> "Un, deux, trois... Learn numbers 1-20 with pronunciation tips.",
        objectives |-> <<"Count to 20", "Ask and tell age">>] >>
SeedCards ==
    << [language |-> "Spanish", term |-> "Hola", definition |-> "Hello",
        example |-> Some("Hola, Juan!")],
       [language |-> "Spanish", term |-> "Adios", definition |-> "Goodbye",
        example |-> Some("Adios, hasta manana.")],
       [language |-> "French", term |-> "Merci", definition |-> "Thank you",
        example |-> Some("Merci beaucoup!")] >>
SeedData(c) == IF c = "lesson" THEN SeedLessons ELSE SeedCards

\* The emptiness test left out: seed inserts whatever the collection holds.
SeedWantedAlways(n) == TRUE

\* `if db[c].count_documents({}) == 0`
SeedWanted(n) == n = 0

Inserts(c, docs) == [i \in 1..Len(docs) |-> [op |-> "insert", c |-> c, doc |-> docs[i]]]

\* The store calls of seed_demo for one collection, in order.
SeedCalls(store, c) ==
    <<[op |-> "count", c |-> c]>>
        \o (IF SeedWanted(count_documents(store, c)) THEN Inserts(c, SeedData(c)) ELSE <<>>)

\* The store calls of one sequential seed_demo request.
SeedPlan(store) == SeedCalls(store, "lesson") \o SeedCalls(store, "flashcard")

\* The most store calls one seed_demo request makes.
MaxSeedCalls == 2 + Len(SeedLessons) + Len(SeedCards)

RECURSIVE Run(_, _, _)
\* The store and next identifier after the calls are made in order.
Run(store, id, calls) ==
    IF calls = <<>> THEN [store |-> store, id |-> id]
    ELSE IF Head(calls).op = "insert"
         THEN Run(create_document(store, id, Head(calls).c, Head(calls).doc), id + 1, Tail(calls))
         ELSE Run(store, id, Tail(calls))

\* ---------------------------------------------------------------- progress
\* The default built from the Progress schema: every defaulted field of it.
DefaultSnapshotOfSchema(user_id) ==
    [user_id |-> user_id, streak_days |-> 0, completed |-> FALSE, studied_flashcards |-> 0]

\* {"user_id": user_id, "streak_days": 0, "completed": False}
DefaultSnapshot(user_id) == [user_id |-> user_id, streak_days |-> 0, completed |-> FALSE]

\* first(items) if items else the default snapshot
FirstOr(items, default) == IF items # <<>> THEN items[1] ELSE default

\* {k: v for k, v in payload.model_dump().items() if v is not None}
StripNone(dump) == [k \in {f \in DOMAIN dump : dump[f] # None} |-> dump[k][1]]

\* The body validated as Progress instead: its defaults are filled in.
SnapshotWithDefaults(payload) ==
    StripNone(ProgressUpdate(payload))
        @@ [completed |-> FALSE, streak_days |-> 0, studied_flashcards |-> 0]

\* The document update_progress stores for a validated body.
Snapshot(payload) == StripNone(ProgressUpdate(payload))

\* get_progress reading without the limit and taking the last match.
ProgressItemsLatest(store, user_id) ==
    LET found == get_documents(store, "progress", "user_id" :> user_id, None)
    IN  IF found = <<>> THEN <<>> ELSE <<serialize(found[Len(found)])>>

\* [serialize(d) for d in get_documents("progress", {"user_id": user_id}, limit=1)]
ProgressItems(store, user_id) ==
    Serialized(get_documents(store, "progress", "user_id" :> user_id, Some(1)))

\* ------------------------------------------------------------- diagnostics
\* db.list_collection_names(): the collections that hold a document
list_collection_names(store) == {c \in Collections : store[c] # <<>>}

\* test_database's payload; `fault`: db.list_collection_names() raises
TestPayload(conn, store, fault) ==
    IF conn = "up"
    THEN IF ~fault
         THEN [backend |-> "Running", database |-> "Connected & Working",
               connection_status |-> "Connected",
               collections |-> list_collection_names(store)]
         ELSE [backend |-> "Running", database |-> "Connected but Error",
               connection_status |-> "Connected", collections |-> {}]
    ELSE [backend |-> "Running", database |-> "Available but not initialized",
          connection_status |-> "Not Connected", collections |-> {}]

\* test_database without its try/except: a store fault, or db being None,
\* escapes as an error response.
TestResponseUnguarded(conn, store, fault) ==
    IF conn = "up" /\ ~fault THEN [status |-> HTTP_OK, body |-> TestPayload(conn, store, fault)]
    ELSE [status |-> HTTP_SERVER_ERROR, body |-> [detail |-> "error"]]

\* test_database's response: the payload, whatever the store does.
TestResponse(conn, store, fault) ==
    [status |-> HTTP_OK, body |-> TestPayload(conn, store, fault)]

VARIABLES
    db,         \* "up": database.db is a connection; "none": database.db is None
    coll,       \* collection name -> documents in insertion order
    nextId,     \* the next identifier the store generates
    pc,         \* worker -> where its POST /seed request stands (SpecConc)
    req,        \* the request served last
    resp,       \* its response
    storeOk,    \* history: whether every store call of that request succeeded
    creates,    \* history: documents stored by create/update requests
    last,       \* history: entity -> the last successful create of it
    first,      \* history: user -> the body of the first stored update_progress
    updates,    \* history: user -> number of stored update_progress calls
    seeds,      \* history: successful seed requests: 0, 1, or 2 for two or more
    seedsOnly   \* history: lessons and flashcards started empty and only
                \* successful seed requests have written to them

history == <<storeOk, creates, last, first, updates, seeds, seedsOnly>>
vars == <<db, coll, nextId, pc, req, resp, history>>

Workers == 1..NumWorkers
Idle == [at |-> "idle"]
NoCreate == [id |-> None]
NoRequest == [route |-> "none"]
NoResponse == [status |-> 0, body |-> Empty]

\* No request is being served.
Ready == req = NoRequest

\* The store is up and the call does not fault.
Works(fault) == db = "up" /\ ~fault

\* The process has started; the store holds one of `sizes` prior flashcards.
Started(sizes) ==
    /\ db \in {"up", "none"}
    /\ \E n \in sizes :
        /\ coll = [c \in Collections |-> IF c = "flashcard" THEN PriorFlashcards(n) ELSE <<>>]
        /\ nextId = n + 1
        /\ seedsOnly = (n = 0)
    /\ pc = [w \in Workers |-> Idle]
    /\ req = NoRequest
    /\ resp = NoResponse
    /\ storeOk = TRUE
    /\ creates = 0
    /\ last = [e \in {"lesson", "quiz", "flashcard"} |-> NoCreate]
    /\ first = [u \in Users |-> None]
    /\ updates = [u \in Users |-> 0]
    /\ seeds = 0

\* The process starts on an empty store.
Init == Started({0})

\* The process starts on a store that may hold flashcards already.
InitStocked == Started(PriorSizes)

\* A request that reads: the store and the write history stay as they are.
Reads == UNCHANGED <<db, coll, nextId, pc, creates, last, first, updates, seeds, seedsOnly>>

\* ------------------------------------------------------------- diagnostics
\* GET /
read_root ==
    /\ Ready
    /\ req' = [route |-> "GET /"]
    /\ resp' = Ok([message |-> "LangLearn API is running"])
    /\ storeOk' = TRUE
    /\ Reads

\* GET /schema
get_schema ==
    /\ Ready
    /\ req' = [route |-> "GET /schema"]
    /\ resp' = Ok([lesson |-> LessonRequired, quiz |-> QuizRequired,
                   flashcard |-> FlashcardRequired, progress |-> {"user_id"}])
    /\ storeOk' = TRUE
    /\ Reads

\* GET /test
test_database ==
    \E fault \in BOOLEAN :
        /\ Ready
        /\ req' = [route |-> "GET /test"]
        /\ resp' = TestResponse(db, coll, fault)
        /\ storeOk' = Works(fault)
        /\ Reads

\* -------------------------------------------------------------------- seed
\* POST /seed, served alone.  `failAt`: the store call that raises (none when
\* the request makes fewer calls).
seed_demo ==
    \E failAt \in 0..MaxSeedCalls :
        LET plan == SeedPlan(coll)
            fails == db = "none" \/ failAt \in 1..Len(plan)
            made == IF db = "none" THEN <<>>
                    ELSE IF fails THEN SubSeq(plan, 1, failAt - 1) ELSE plan
            after == Run(coll, nextId, made)
        IN  /\ Ready
            /\ req' = [route |-> "POST /seed"]
            /\ resp' = IF fails THEN ServerError ELSE Ok([status |-> "ok"])
            /\ storeOk' = ~fails
            /\ coll' = after.store
            /\ nextId' = after.id
            /\ seeds' = IF fails \/ seeds = 2 THEN seeds ELSE seeds + 1
            /\ seedsOnly' = (seedsOnly /\ ~fails)
            /\ UNCHANGED <<db, pc, creates, last, first, updates>>

\* ----------------------------------------------------------------- creates
\* A create that writes over the collection's newest document when there is one.
CreateInPlace(c, data, fault) ==
    /\ creates < MaxCreates
    /\ storeOk' = Works(fault)
    /\ IF Works(fault)
       THEN /\ coll' = IF coll[c] = <<>> THEN create_document(coll, nextId, c, data)
                       ELSE [coll EXCEPT ![c][Len(coll[c])] = ("_id" :> nextId) @@ data]
            /\ nextId' = nextId + 1
            /\ creates' = creates + 1
            /\ resp' = Ok([id |-> str(nextId)])
       ELSE /\ resp' = ServerError
            /\ UNCHANGED <<coll, nextId, creates>>

\* `_id = create_document(c, data); return {"id": _id}`
Create(c, data, fault) ==
    /\ creates < MaxCreates
    /\ storeOk' = Works(fault)
    /\ IF Works(fault)
       THEN /\ coll' = create_document(coll, nextId, c, data)
            /\ nextId' = nextId + 1
            /\ creates' = creates + 1
            /\ resp' = Ok([id |-> str(nextId)])
       ELSE /\ resp' = ServerError
            /\ UNCHANGED <<coll, nextId, creates>>

\* The request body fails validation: the handler is not entered.
Rejected ==
    /\ resp' = ValidationError
    /\ storeOk' = TRUE
    /\ Reads

\* What the history keeps of a create of entity e.
Created(e, payload, fault) ==
    /\ last' = IF Works(fault)
               THEN [last EXCEPT ![e] = [id |-> Some(str(nextId)), payload |-> payload,
                                         before |-> Len(coll[e])]]
               ELSE last
    /\ seedsOnly' = (seedsOnly /\ ~(Works(fault) /\ e \in {"lesson", "flashcard"}))
    /\ UNCHANGED <<db, pc, first, updates, seeds>>

\* GET /lessons
list_lessons ==
    \E language \in LanguageParams, level \in LevelParams, fault \in BOOLEAN :
        LET q == Filter("language", language) @@ Filter("level", level)
            items == Serialized(get_documents(coll, "lesson", q, None))
        IN  /\ Ready
            /\ req' = [route |-> "GET /lessons", language |-> language, level |-> level]
            /\ storeOk' = Works(fault)
            /\ resp' = IF Works(fault) THEN Ok([items |-> items]) ELSE ServerError
            /\ Reads

\* POST /lessons
create_lesson ==
    \E payload \in LessonPayloads, fault \in BOOLEAN :
        /\ Ready
        /\ req' = [route |-> "POST /lessons", payload |-> payload]
        /\ IF Valid(LessonRequired, payload)
           THEN Create("lesson", Lesson(payload), fault) /\ Created("lesson", payload, fault)
           ELSE Rejected

\* GET /quizzes
list_quizzes ==
    \E lesson_id \in LessonIdParams, fault \in BOOLEAN :
        LET q == Filter("lesson_id", lesson_id)
            items == Serialized(get_documents(coll, "quiz", q, None))
        IN  /\ Ready
            /\ req' = [route |-> "GET /quizzes", lesson_id |-> lesson_id]
            /\ storeOk' = Works(fault)
            /\ resp' = IF Works(fault) THEN Ok([items |-> items]) ELSE ServerError
            /\ Reads

\* POST /quizzes
create_quiz ==
    \E payload \in QuizPayloads, fault \in BOOLEAN :
        /\ Ready
        /\ req' = [route |-> "POST /quizzes", payload |-> payload]
        /\ IF Valid(QuizRequired, payload)
           THEN Create("quiz", Quiz(payload), fault) /\ Created("quiz", payload, fault)
           ELSE Rejected

\* GET /flashcards
list_flashcards ==
    \E language \in LanguageParams, limit \in LimitParams, fault \in BOOLEAN :
        LET q == Filter("language", language)
            items == Serialized(get_documents(coll, "flashcard", q, Some(limit)))
        IN  /\ Ready
            /\ req' = [route |-> "GET /flashcards", language |-> language, limit |-> limit]
            /\ storeOk' = Works(fault)
            /\ resp' = IF Works(fault) THEN Ok([items |-> items]) ELSE ServerError
            /\ Reads

\* POST /flashcards
create_flashcard ==
    \E payload \in FlashcardPayloads, fault \in BOOLEAN :
        /\ Ready
        /\ req' = [route |-> "POST /flashcards", payload |-> payload]
        /\ IF Valid(FlashcardRequired, payload)
           THEN Create("flashcard", Flashcard(payload), fault)
                /\ Created("flashcard", payload, fault)
           ELSE Rejected

\* ---------------------------------------------------------------- progress
\* GET /progress/{user_id}
get_progress ==
    \E user_id \in Users, fault \in BOOLEAN :
        LET items == ProgressItems(coll, user_id)
        IN  /\ Ready
            /\ req' = [route |-> "GET /progress", user_id |-> user_id]
            /\ storeOk' = Works(fault)
            /\ resp' = IF Works(fault) THEN Ok(FirstOr(items, DefaultSnapshot(user_id)))
                       ELSE ServerError
            /\ Reads

\* POST /progress
update_progress ==
    \E payload \in ProgressPayloads, fault \in BOOLEAN :
        /\ Ready
        /\ req' = [route |-> "POST /progress", payload |-> payload]
        /\ IF Valid({"user_id"}, payload)
           THEN /\ Create("progress", Snapshot(payload), fault)
                /\ first' = IF Works(fault) /\ first[payload.user_id] = None
                            THEN [first EXCEPT ![payload.user_id] = Some(payload)]
                            ELSE first
                /\ updates' = IF Works(fault)
                              THEN [updates EXCEPT ![payload.user_id] = @ + 1]
                              ELSE updates
                /\ UNCHANGED <<db, pc, last, seeds, seedsOnly>>
           ELSE Rejected

\* The response is sent; the server waits for the next request.
send_response ==
    /\ ~Ready
    /\ req' = NoRequest
    /\ resp' = NoResponse
    /\ storeOk' = TRUE
    /\ Reads

Next ==
    \/ send_response
    \/ read_root
    \/ get_schema
    \/ test_database
    \/ seed_demo
    \/ list_lessons
    \/ create_lesson
    \/ list_quizzes
    \/ create_quiz
    \/ list_flashcards
    \/ create_flashcard
    \/ get_progress
    \/ update_progress

\* Requests served one at a time.
Spec == Init /\ [][Next]_vars

\* The lesson, quiz and flashcard routes and seed; the progress routes touch
\* the progress collection alone.
NextContent ==
    \/ send_response
    \/ seed_demo
    \/ list_lessons
    \/ create_lesson
    \/ list_quizzes
    \/ create_quiz
    \/ list_flashcards
    \/ create_flashcard

\* Content requests served one at a time on a store that may be stocked.
SpecStocked == InitStocked /\ [][NextContent]_vars

\* ------------------------------------------------- concurrent seed requests
\* seed_demo is a plain `def` route: each request runs on a thread of the
\* server's pool, and the threads interleave between store calls.
Finished(status) == [at |-> "done", status |-> status]

\* What a seed request does after it is through with collection c.
SeedAfter(c) == IF c = "lesson" THEN [at |-> "count", c |-> "flashcard"] ELSE Finished(HTTP_OK)

Unserved == UNCHANGED <<db, req, resp, history>>

\* A worker takes a POST /seed request: `if db is None: raise`.
seed_begin(w) ==
    /\ pc[w] = Idle
    /\ pc' = [pc EXCEPT ![w] = IF db = "none" THEN Finished(HTTP_SERVER_ERROR)
                                ELSE [at |-> "count", c |-> "lesson"]]
    /\ UNCHANGED <<coll, nextId>>
    /\ Unserved

\* `if db[c].count_documents({}) == 0`
seed_count(w) ==
    /\ pc[w].at = "count"
    /\ \E fault \in BOOLEAN :
        pc' = [pc EXCEPT ![w] =
                IF fault THEN Finished(HTTP_SERVER_ERROR)
                ELSE IF SeedWanted(count_documents(coll, pc[w].c))
                     THEN [at |-> "insert", c |-> pc[w].c, todo |-> SeedData(pc[w].c)]
                     ELSE SeedAfter(pc[w].c)]
    /\ UNCHANGED <<coll, nextId>>
    /\ Unserved

\* One turn of `for l in lessons: create_document("lesson", l)`, or of the
\* loop over cards.
seed_insert(w) ==
    /\ pc[w].at = "insert"
    /\ \E fault \in BOOLEAN :
        IF fault
        THEN /\ pc' = [pc EXCEPT ![w] = Finished(HTTP_SERVER_ERROR)]
             /\ UNCHANGED <<coll, nextId>>
        ELSE /\ coll' = create_document(coll, nextId, pc[w].c, Head(pc[w].todo))
             /\ nextId' = nextId + 1
             /\ pc' = [pc EXCEPT ![w] =
                        IF Tail(pc[w].todo) = <<>> THEN SeedAfter(pc[w].c)
                        ELSE [@ EXCEPT !.todo = Tail(pc[w].todo)]]
    /\ Unserved

\* The worker sends the response and is free again.
seed_return(w) ==
    /\ pc[w].at = "done"
    /\ pc' = [pc EXCEPT ![w] = Idle]
    /\ UNCHANGED <<coll, nextId>>
    /\ Unserved

NextConc ==
    \E w \in Workers :
        \/ seed_begin(w)
        \/ seed_count(w)
        \/ seed_insert(w)
        \/ seed_return(w)

\* The lesson and flashcard collections are empty when the process starts.
InitConc == Init /\ coll["flashcard"] = <<>>

\* POST /seed requests served concurrently.
SpecConc == InitConc /\ [][NextConc]_vars

\* ================================================================ properties
Entities == {"lesson", "quiz", "flashcard"}
DiagnosticRoutes == {"GET /", "GET /schema", "GET /test"}

\* The step serves a request of the route.
Serves(route) == Ready /\ req'.route = route

\* The documents of the progress collection that belong to the user.
SnapshotsOf(store, u) ==
    {i \in 1..Len(store["progress"]) : store["progress"][i]["user_id"] = u}

\* ------------------------------------------------------------------- C1
\* C1: starting from empty Lesson and Flashcard collections, after any
\* number (>= 1) of successful seed requests served one after the other the
\* collections hold exactly 2 lessons and 3 flashcards, and a seed request
\* after the first leaves every collection as it was.
SeedIdempotent ==
    [][ /\ (seeds' >= 1 /\ seedsOnly') =>
              (Len(coll'["lesson"]) = 2 /\ Len(coll'["flashcard"]) = 3)
        /\ (Serves("POST /seed") /\ seeds >= 1 /\ seedsOnly' /\ resp'.status = HTTP_OK) =>
              coll' = coll ]_vars

\* A second successful seed request has been served on collections that
\* started empty.
SeedTwiceServed ==
    /\ req.route = "POST /seed"
    /\ resp.status = HTTP_OK
    /\ seedsOnly
    /\ seeds = 2

\* ------------------------------------------------------------------- C2
\* The request served is an unfiltered list of the entity, default parameters.
UnfilteredList(e) ==
    /\ resp.status = HTTP_OK
    /\ CASE e = "lesson" ->
              req.route = "GET /lessons" /\ req.language = None /\ req.level = None
         [] e = "quiz" -> req.route = "GET /quizzes" /\ req.lesson_id = None
         [] e = "flashcard" ->
              req.route = "GET /flashcards" /\ req.language = None /\ req.limit = DefaultLimit

\* A submitted field as a record shows it (an Optional field's value is Some).
Shown(k, v) == IF k = "example" THEN Some(v) ELSE v

\* The listed record shows every submitted field with the submitted value.
MatchesPayload(item, payload) ==
    \A k \in DOMAIN payload : k \in DOMAIN item /\ item[k] = Shown(k, payload[k])

NonEmptyString(x) == x \in STRING /\ x # ""

\* C2 as stated: after a successful create of a Lesson, Quiz or Flashcard, an
\* unfiltered list of the entity includes exactly one record whose fields
\* match the submitted payload, and that record has a non-empty string id.
CreateThenListExactlyOne ==
    \A e \in Entities :
        (UnfilteredList(e) /\ last[e].id # None) =>
            LET items == resp.body.items
                hits == {i \in 1..Len(items) : MatchesPayload(items[i], last[e].payload)}
            IN  /\ Cardinality(hits) = 1
                /\ \A i \in hits : "id" \in DOMAIN items[i] /\ NonEmptyString(items[i]["id"])

\* C2, amended: after a successful create, an unfiltered list of the entity
\* includes exactly one record whose id is the id the create returned; that
\* id is a non-empty string and the record's fields match the submitted
\* payload.  (Other records may match the payload too.)  For a Flashcard
\* this holds when the collection held fewer than 50 records before the
\* create.
CreateThenListById ==
    \A e \in Entities :
        (/\ UnfilteredList(e)
         /\ last[e].id # None
         /\ (e = "flashcard" => last[e].before < 50)) =>
            LET items == resp.body.items
                hits == {i \in 1..Len(items) :
                            "id" \in DOMAIN items[i] /\ Some(items[i]["id"]) = last[e].id}
            IN  /\ Cardinality(hits) = 1
                /\ \A i \in hits : /\ NonEmptyString(items[i]["id"])
                                   /\ MatchesPayload(items[i], last[e].payload)

\* A created flashcard is the 50th of its collection and the default list
\* returns 50 records.
FiftiethCardListed ==
    /\ UnfilteredList("flashcard")
    /\ last["flashcard"].id # None
    /\ last["flashcard"].before = 49
    /\ Len(resp.body.items) = 50

\* ------------------------------------------------------------------- C3
\* The documents of collection c that a list request with these parameters
\* is to return: those equal to every supplied parameter.
Wanted(c, params) ==
    SelectSeq(coll[c], LAMBDA d : \A k \in DOMAIN params :
                                    params[k] # None => d[k] = params[k][1])

\* C3: a list of lessons or flashcards with a supplied language returns only
\* records of that language and every such record (the first `limit` of them
\* for flashcards); a parameter that is not supplied excludes nothing.
ListFiltersExactly ==
    /\ (req.route = "GET /lessons" /\ resp.status = HTTP_OK) =>
          resp.body.items
            = Serialized(Wanted("lesson", [language |-> req.language, level |-> req.level]))
    /\ (req.route = "GET /flashcards" /\ resp.status = HTTP_OK) =>
          resp.body.items
            = Serialized(Take(Wanted("flashcard", [language |-> req.language]), req.limit))

\* ------------------------------------------------------------------- C4
\* C4: get_progress for a user with no Progress document answers, when the
\* store works, 200 with exactly {user_id, streak_days: 0, completed: false}
\* (never a not-found error), and leaves the Progress collection unchanged.
DefaultSnapshotReturned ==
    [][ (Serves("GET /progress") /\ SnapshotsOf(coll, req'.user_id) = {}) =>
            /\ resp'.status # 404
            /\ storeOk' =>
                  /\ resp'.status = 200
                  /\ resp'.body =
                        [user_id |-> req'.user_id, streak_days |-> 0, completed |-> FALSE]
            /\ coll' = coll ]_vars

\* The default snapshot was returned for a user without documents while
\* another user has one.
DefaultSnapshotServed ==
    /\ req.route = "GET /progress"
    /\ resp.status = HTTP_OK
    /\ SnapshotsOf(coll, req.user_id) = {}
    /\ coll["progress"] # <<>>

\* ------------------------------------------------------------------- C5
\* C5: update_progress stores exactly the fields of the body that are not
\* null; for a user whose first stored body is {user_id, streak_days: 3},
\* get_progress returns streak_days = 3 and, besides id, no field the caller
\* omitted.
OmittedFieldsNotStored ==
    /\ (req.route = "POST /progress" /\ resp.status = HTTP_OK) =>
          LET doc == coll["progress"][Len(coll["progress"])]
          IN  /\ DOMAIN doc = DOMAIN req.payload \cup {"_id"}
              /\ \A k \in DOMAIN req.payload : doc[k] = req.payload[k]
    /\ (/\ req.route = "GET /progress"
        /\ resp.status = HTTP_OK
        /\ first[req.user_id] = Some([user_id |-> "u1", streak_days |-> 3])) =>
          /\ DOMAIN resp.body = {"id", "user_id", "streak_days"}
          /\ resp.body["streak_days"] = 3
          /\ resp.body["user_id"] = "u1"

\* get_progress was served for a user whose first stored body is
\* {user_id: "u1", streak_days: 3}.
StreakOnlyRetrieved ==
    /\ req.route = "GET /progress"
    /\ resp.status = HTTP_OK
    /\ first[req.user_id] = Some([user_id |-> "u1", streak_days |-> 3])

\* ------------------------------------------------------------------- C6
\* C6: a create request for a Lesson without language, title, level or
\* content is answered with a 4xx status and leaves every collection
\* unchanged.
InvalidLessonRejected ==
    [][ (/\ Serves("POST /lessons")
         /\ \E f \in {"language", "title", "level", "content"} : f \notin DOMAIN req'.payload) =>
            /\ resp'.status \in 400..499
            /\ coll' = coll ]_vars

\* A Lesson body without title was answered.
LessonWithoutTitleServed ==
    /\ req.route = "POST /lessons"
    /\ "title" \notin DOMAIN req.payload
    /\ DOMAIN req.payload = {"language", "level", "content"}
    /\ resp.status = HTTP_UNPROCESSABLE

\* ------------------------------------------------------------------- C7
\* C7: whether the store is connected, connected but faulting, or not
\* configured, /test answers 200 with a status payload, and /, /schema and
\* /test leave every collection unchanged.
DiagnosticsNeverFail ==
    [][ /\ Serves("GET /test") =>
              /\ resp'.status = 200
              /\ resp'.body.backend = "Running"
              /\ resp'.body.database \in
                    {"Connected & Working", "Connected but Error",
                     "Available but not initialized"}
              /\ (db = "none" => resp'.body.connection_status = "Not Connected")
        /\ (Ready /\ req'.route \in DiagnosticRoutes) => coll' = coll ]_vars

\* /test was served with no store configured, and with a faulting store.
TestServedDegraded ==
    /\ req.route = "GET /test"
    /\ ~storeOk
    /\ resp.status = HTTP_OK
    /\ db = "none"

ConcurrentSeedBounded ==
    /\ Len(coll["lesson"]) <= 2
    /\ Len(coll["flashcard"]) <= 3

\* ------------------------------------------------------------------ C10
\* C10: every collection is append-only: each step keeps every stored
\* document, with its identifier and field values, at its place, so no
\* document is deleted or changed and no collection shrinks.
AppendOnly ==
    [][ \A c \in Collections :
            /\ Len(coll[c]) <= Len(coll'[c])
            /\ SubSeq(coll'[c], 1, Len(coll[c])) = coll[c] ]_vars

\* Seeded lessons and flashcards are stored and a progress snapshot was just
\* stored for a user who already had one.
SeededAndSnapshotAdded ==
    /\ seeds >= 1
    /\ \A c \in {"lesson", "flashcard", "progress"} : coll[c] # <<>>
    /\ req.route = "POST /progress"
    /\ resp.status = HTTP_OK
    /\ Cardinality(SnapshotsOf(coll, req.payload.user_id)) >= 2
====
